---- MODULE Spec2Model ----
(***************************************************************************)
(* A model of id_tree's Tree<T> (src/src/tree.rs): an arena of optional    *)
(* nodes addressed by NodeId = (tree_id, index), with a free list of       *)
(* recycled ids, set_root / insert_with_parent and the two removals.       *)
(*                                                                         *)
(* Rust's Option<X> is a sequence of length 0 (None) or 1 (Some(x)).       *)
(* Vec indices are 0-based in the code and kept 0-based in NodeId.index;   *)
(* a Vec v is a TLA+ sequence whose element i is v[i + 1].                 *)
(* Every function of the code is an operator from the tree it is called on *)
(* to a record holding the tree it leaves behind, what it returns and, if  *)
(* it panicked, the panic (panic = "" when it returned normally).          *)
(***************************************************************************)
EXTENDS Integers, Sequences, FiniteSets, TLC

\* Bound on the number of slots of all arenas together.
MaxSlots == 3

\* The payloads callers store.
Values == {5, 6}

\* The stamps ProcessUniqueId::new() hands to the arenas that are built.
TreeIds == {1, 2}

VARIABLES
    trees,    \* trees[t]: the Tree whose id is t
    minted,   \* every NodeId an arena has handed to a caller so far
    panicked  \* the message of the panic that ended the program, "" while it runs

vars == <<trees, minted, panicked>>

---------------------------------------------------------------------------
\* Option<X>

None == <<>>

Some(x) == <<x>>

is_some(o) == o # <<>>

unwrap(o) == o[1]

---------------------------------------------------------------------------
\* Node<T>: the data record the arena stores.

Node_new(data) == [data |-> data, parent |-> None, children |-> <<>>]

set_data(node, data) == [node EXCEPT !.data = data]

add_child(node, child_id) == [node EXCEPT !.children = Append(@, child_id)]

set_parent(node, parent) == [node EXCEPT !.parent = parent]

\* Vec::retain(|x| x != id)
retain_ne(s, id) == SelectSeq(s, LAMBDA x : x # id)

---------------------------------------------------------------------------
\* Tree<T>

new_node_id(self, node_index) == [tree_id |-> self.id, index |-> node_index]

\* A vector of capacity empty slots in the place of an empty vector.
Vec_with_capacity_filled(capacity) == [i \in 1..capacity |-> None]

\* Vec::with_capacity: an empty vector, whatever room it is given.
Vec_with_capacity(capacity) == <<>>

\* TreeBuilder::build; root is the Option<Node<T>> given to with_root, the
\* capacities those given to with_node_capacity and with_swap_capacity.
build(tree_id, root, node_capacity, swap_capacity) ==
    LET tree == [id |-> tree_id, root |-> None,
                 nodes |-> Vec_with_capacity(node_capacity),
                 free_ids |-> Vec_with_capacity(swap_capacity)]
    IN  IF is_some(root)
        THEN [tree EXCEPT !.nodes = Append(@, root),
                          !.root = Some([tree_id |-> tree_id, index |-> 0])]
        ELSE tree

\* is_valid_node_id without the comparison of the stamps.
is_valid_node_id_no_stamp(self, node_id) ==
    IF node_id.index >= Len(self.nodes)
    THEN [valid |-> FALSE, error |-> "", panic |-> "NodeId is out of bounds"]
    ELSE IF self.nodes[node_id.index + 1] = None
    THEN [valid |-> FALSE, error |-> "NodeIdNoLongerValid", panic |-> ""]
    ELSE [valid |-> TRUE, error |-> "", panic |-> ""]

\* is_valid_node_id without the look at the slot's content.
is_valid_node_id_no_vacancy(self, node_id) ==
    IF node_id.tree_id # self.id
    THEN [valid |-> FALSE, error |-> "InvalidNodeIdForTree", panic |-> ""]
    ELSE IF node_id.index >= Len(self.nodes)
    THEN [valid |-> FALSE, error |-> "", panic |-> "NodeId is out of bounds"]
    ELSE [valid |-> TRUE, error |-> "", panic |-> ""]

\* (is_valid, error); panic is the out-of-bounds panic.
is_valid_node_id(self, node_id) ==
    IF node_id.tree_id # self.id
    THEN [valid |-> FALSE, error |-> "InvalidNodeIdForTree", panic |-> ""]
    ELSE IF node_id.index >= Len(self.nodes)
    THEN [valid |-> FALSE, error |-> "", panic |-> "NodeId is out of bounds"]
    ELSE IF self.nodes[node_id.index + 1] = None
    THEN [valid |-> FALSE, error |-> "NodeIdNoLongerValid", panic |-> ""]
    ELSE [valid |-> TRUE, error |-> "", panic |-> ""]

\* get and get_mut: the Option<&Node<T>> they return.
get(self, node_id) ==
    LET v == is_valid_node_id(self, node_id)
    IN  IF v.panic # "" THEN [val |-> None, panic |-> v.panic]
        ELSE IF v.valid THEN [val |-> self.nodes[node_id.index + 1], panic |-> ""]
        ELSE [val |-> None, panic |-> ""]

get_mut(self, node_id) == get(self, node_id)

\* A write through the &mut Node<T> that get_mut returned for node_id.
write_node(self, node_id, node) ==
    [self EXCEPT !.nodes[node_id.index + 1] = Some(node)]

is_root_node(self, node_id) ==
    IF is_some(self.root) THEN unwrap(self.root) = node_id ELSE FALSE

root_node_id(self) == self.root

\* Vec::remove in the place of Vec::swap_remove: the elements behind index move
\* one place down.
swap_remove_shift(v, index) ==
    IF index >= Len(v)
    THEN [vec |-> v, removed |-> None, panic |-> "swap_remove index out of bounds"]
    ELSE [vec |-> SubSeq(v, 1, index) \o SubSeq(v, index + 2, Len(v)),
          removed |-> v[index + 1],
          panic |-> ""]

\* Vec::swap_remove(index): the element at index is taken out and the last
\* element moves into its place; it panics when index is out of bounds.
swap_remove(v, index) ==
    IF index >= Len(v)
    THEN [vec |-> v, removed |-> None, panic |-> "swap_remove index out of bounds"]
    ELSE [vec |-> SubSeq([v EXCEPT ![index + 1] = v[Len(v)]], 1, Len(v) - 1),
          removed |-> v[index + 1],
          panic |-> ""]

\* set_as_parent_and_child without the parent link of the child.
set_as_parent_and_child_child_only(self, parent_id, child_id) ==
    LET p == get_mut(self, parent_id)
    IN  IF p.panic # "" THEN [tree |-> self, panic |-> p.panic]
        ELSE IF p.val = None
        THEN [tree |-> self, panic |-> "parent_id refers to a None value."]
        ELSE [tree |-> write_node(self, parent_id, add_child(unwrap(p.val), child_id)),
              panic |-> ""]

\* set_as_parent_and_child without the entry in the parent's children.
set_as_parent_and_child_parent_only(self, parent_id, child_id) ==
    LET c == get_mut(self, child_id)
    IN  IF c.panic # "" THEN [tree |-> self, panic |-> c.panic]
        ELSE IF c.val = None
        THEN [tree |-> self, panic |-> "child_id refers to a None value."]
        ELSE [tree |-> write_node(self, child_id, set_parent(unwrap(c.val), Some(parent_id))),
              panic |-> ""]

set_as_parent_and_child(self, parent_id, child_id) ==
    LET p == get_mut(self, parent_id)
    IN  IF p.panic # "" THEN [tree |-> self, panic |-> p.panic]
        ELSE IF p.val = None
        THEN [tree |-> self, panic |-> "parent_id refers to a None value."]
        ELSE LET t1 == write_node(self, parent_id, add_child(unwrap(p.val), child_id))
                 c == get_mut(t1, child_id)
             IN  IF c.panic # "" THEN [tree |-> t1, panic |-> c.panic]
                 ELSE IF c.val = None
                 THEN [tree |-> t1, panic |-> "child_id refers to a None value."]
                 ELSE [tree |-> write_node(t1, child_id,
                                           set_parent(unwrap(c.val), Some(parent_id))),
                       panic |-> ""]

\* insert_new_node that takes the oldest free id in the place of the newest.
insert_new_node_oldest(self, new_node) ==
    IF Len(self.free_ids) > 0
    THEN LET free_id == self.free_ids[1]
             popped == [self EXCEPT !.free_ids = SubSeq(@, 2, Len(@))]
             sr == swap_remove(Append(popped.nodes, Some(new_node)), free_id.index)
         IN  [tree |-> [popped EXCEPT !.nodes = sr.vec],
              id |-> free_id,
              panic |-> sr.panic]
    ELSE LET new_node_index == Len(self.nodes)
         IN  [tree |-> [self EXCEPT !.nodes = Append(@, Some(new_node))],
              id |-> new_node_id(self, new_node_index),
              panic |-> ""]

\* insert_new_node that reads the last free id and leaves it on the free list.
insert_new_node_no_pop(self, new_node) ==
    IF Len(self.free_ids) > 0
    THEN LET free_id == self.free_ids[Len(self.free_ids)]
             sr == swap_remove(Append(self.nodes, Some(new_node)), free_id.index)
         IN  [tree |-> [self EXCEPT !.nodes = sr.vec],
              id |-> free_id,
              panic |-> sr.panic]
    ELSE LET new_node_index == Len(self.nodes)
         IN  [tree |-> [self EXCEPT !.nodes = Append(@, Some(new_node))],
              id |-> new_node_id(self, new_node_index),
              panic |-> ""]

insert_new_node(self, new_node) ==
    IF Len(self.free_ids) > 0
    THEN LET free_id == self.free_ids[Len(self.free_ids)]
             popped == [self EXCEPT !.free_ids = SubSeq(@, 1, Len(@) - 1)]
             sr == swap_remove(Append(popped.nodes, Some(new_node)), free_id.index)
         IN  [tree |-> [popped EXCEPT !.nodes = sr.vec],
              id |-> free_id,
              panic |-> sr.panic]
    ELSE LET new_node_index == Len(self.nodes)
         IN  [tree |-> [self EXCEPT !.nodes = Append(@, Some(new_node))],
              id |-> new_node_id(self, new_node_index),
              panic |-> ""]

\* remove_node_dirty that does not put the id on the free list.
remove_node_dirty_leak(self, node_id) ==
    LET v == is_valid_node_id(self, node_id)
        sr == swap_remove(Append(self.nodes, None), node_id.index)
    IN  IF v.panic # "" THEN [tree |-> self, node |-> None, panic |-> v.panic]
        ELSE IF ~v.valid \/ sr.panic # "" \/ sr.removed = None
        THEN [tree |-> self, node |-> None,
              panic |-> "node_id refers to a None value even though it is should be valid."]
        ELSE [tree |-> [self EXCEPT !.nodes = sr.vec],
              node |-> sr.removed,
              panic |-> ""]

\* remove_node_dirty without the push of None: swap_remove alone, which makes
\* the vector one slot shorter.
remove_node_dirty_no_push(self, node_id) ==
    LET v == is_valid_node_id(self, node_id)
        sr == swap_remove(self.nodes, node_id.index)
    IN  IF v.panic # "" THEN [tree |-> self, node |-> None, panic |-> v.panic]
        ELSE IF ~v.valid \/ sr.panic # "" \/ sr.removed = None
        THEN [tree |-> self, node |-> None,
              panic |-> "node_id refers to a None value even though it is should be valid."]
        ELSE [tree |-> [self EXCEPT !.nodes = sr.vec,
                                    !.free_ids = Append(@, node_id)],
              node |-> sr.removed,
              panic |-> ""]

\* The debug assertion and the expect both panic on an id that is not valid, and
\* in both builds the slots are then what they were (the pushed None replaces the
\* None that swap_remove took out).
remove_node_dirty(self, node_id) ==
    LET v == is_valid_node_id(self, node_id)
        sr == swap_remove(Append(self.nodes, None), node_id.index)
    IN  IF v.panic # "" THEN [tree |-> self, node |-> None, panic |-> v.panic]
        ELSE IF ~v.valid \/ sr.panic # "" \/ sr.removed = None
        THEN [tree |-> self, node |-> None,
              panic |-> "node_id refers to a None value even though it is should be valid."]
        ELSE [tree |-> [self EXCEPT !.nodes = sr.vec,
                                    !.free_ids = Append(@, node_id)],
              node |-> sr.removed,
              panic |-> ""]

\* remove_node that leaves the children list of the parent as it is.
remove_node_no_detach(self, node_id) == remove_node_dirty(self, node_id)

remove_node(self, node_id) ==
    LET d == remove_node_dirty(self, node_id)
    IN  IF d.panic # "" THEN d
        ELSE LET node == unwrap(d.node)
             IN  IF is_some(node.parent)
                 THEN LET parent_id == unwrap(node.parent)
                          p == get_mut(d.tree, parent_id)
                      IN  IF p.panic # ""
                          THEN [tree |-> d.tree, node |-> None, panic |-> p.panic]
                          ELSE IF is_some(p.val)
                          THEN [tree |-> write_node(d.tree, parent_id,
                                    [unwrap(p.val) EXCEPT
                                        !.children = retain_ne(@, node_id)]),
                                node |-> d.node,
                                panic |-> ""]
                          ELSE [tree |-> d.tree, node |-> None,
                                panic |-> "Invalid parent_id for node_id"]
                 ELSE [tree |-> d.tree, node |-> d.node, panic |-> ""]

\* The recursion of drop_children_recursive is cut at a call depth of
\* StackDepth(self): a chain of calls longer than twice the number of slots that
\* has not hit the unwrap of a None slot runs through a cycle of first children,
\* changes nothing on its way round and so never returns (a stack overflow).
StackDepth(self) == 2 * Len(self.nodes) + 2

RECURSIVE drop_children_recursive(_, _, _)
RECURSIVE drop_children_loop(_, _, _, _)

\* The loop without the recursive call: only the children themselves are removed.
RECURSIVE drop_children_loop_shallow(_, _, _, _)
drop_children_loop_shallow(self, children, i, depth) ==
    IF i > Len(children) THEN [tree |-> self, panic |-> ""]
    ELSE LET d == remove_node_dirty(self, children[i])
         IN  IF d.panic # "" THEN [tree |-> d.tree, panic |-> d.panic]
             ELSE drop_children_loop_shallow(d.tree, children, i + 1, depth)

\* The body of `for child_id in children`, from the i-th child on.
drop_children_loop(self, children, i, depth) ==
    IF i > Len(children) THEN [tree |-> self, panic |-> ""]
    ELSE LET r == drop_children_recursive(self, children[i], depth + 1)
         IN  IF r.panic # "" THEN r
             ELSE LET d == remove_node_dirty(r.tree, children[i])
                  IN  IF d.panic # "" THEN [tree |-> d.tree, panic |-> d.panic]
                      ELSE drop_children_loop(d.tree, children, i + 1, depth)

drop_children_recursive(self, node_id, depth) ==
    IF depth > StackDepth(self) THEN [tree |-> self, panic |-> "stack overflow"]
    ELSE LET n == get(self, node_id)
         IN  IF n.panic # "" THEN [tree |-> self, panic |-> n.panic]
             ELSE IF n.val = None
             THEN [tree |-> self, panic |-> "called Option::unwrap() on a None value"]
             ELSE drop_children_loop(self, unwrap(n.val).children, 1, depth)

---------------------------------------------------------------------------
\* What a public operation hands back to its caller.

Ok_id(id) == [kind |-> "Ok", id |-> Some(id), node |-> None, error |-> ""]

Ok_node(node) == [kind |-> "Ok", id |-> None, node |-> Some(node), error |-> ""]

Err(error) == [kind |-> "Err", id |-> None, node |-> None, error |-> error]

Panic(msg) == [kind |-> "Panic", id |-> None, node |-> None, error |-> msg]

set_root(self, new_root) ==
    LET n == insert_new_node(self, new_root)
        new_root_id == n.id
    IN  IF n.panic # "" THEN [tree |-> n.tree, ret |-> Panic(n.panic)]
        ELSE LET l == IF is_some(self.root)
                      THEN set_as_parent_and_child(n.tree, new_root_id, unwrap(self.root))
                      ELSE [tree |-> n.tree, panic |-> ""]
             IN  IF l.panic # "" THEN [tree |-> l.tree, ret |-> Panic(l.panic)]
                 ELSE [tree |-> [l.tree EXCEPT !.root = Some(new_root_id)],
                       ret |-> Ok_id(new_root_id)]

\* insert_with_parent taking the slot before it validates parent_id.
insert_with_parent_late_check(self, child, parent_id) ==
    LET n == insert_new_node(self, child)
        v == is_valid_node_id(n.tree, parent_id)
    IN  IF v.panic # "" THEN [tree |-> n.tree, ret |-> Panic(v.panic)]
        ELSE IF ~v.valid THEN [tree |-> n.tree, ret |-> Err(v.error)]
        ELSE LET l == set_as_parent_and_child(n.tree, parent_id, n.id)
             IN  IF l.panic # "" THEN [tree |-> l.tree, ret |-> Panic(l.panic)]
                 ELSE [tree |-> l.tree, ret |-> Ok_id(n.id)]

insert_with_parent(self, child, parent_id) ==
    LET v == is_valid_node_id(self, parent_id)
    IN  IF v.panic # "" THEN [tree |-> self, ret |-> Panic(v.panic)]
        ELSE IF ~v.valid THEN [tree |-> self, ret |-> Err(v.error)]
        ELSE LET n == insert_new_node(self, child)
                 new_child_id == n.id
             IN  IF n.panic # "" THEN [tree |-> n.tree, ret |-> Panic(n.panic)]
                 ELSE LET l == set_as_parent_and_child(n.tree, parent_id, new_child_id)
                      IN  IF l.panic # "" THEN [tree |-> l.tree, ret |-> Panic(l.panic)]
                          ELSE [tree |-> l.tree, ret |-> Ok_id(new_child_id)]

remove_node_drop_children(self, node_id) ==
    LET v == is_valid_node_id(self, node_id)
    IN  IF v.panic # "" THEN [tree |-> self, ret |-> Panic(v.panic)]
        ELSE IF ~v.valid THEN [tree |-> self, ret |-> Err(v.error)]
        ELSE LET t1 == IF is_root_node(self, node_id)
                       THEN [self EXCEPT !.root = None]
                       ELSE self
                 d == drop_children_recursive(t1, node_id, 0)
             IN  IF d.panic # "" THEN [tree |-> d.tree, ret |-> Panic(d.panic)]
                 ELSE LET r == remove_node(d.tree, node_id)
                      IN  IF r.panic # "" THEN [tree |-> r.tree, ret |-> Panic(r.panic)]
                          ELSE [tree |-> r.tree,
                                ret |-> Ok_node([unwrap(r.node) EXCEPT !.children = <<>>])]

remove_node_orphan_children(self, node_id) ==
    LET v == is_valid_node_id(self, node_id)
    IN  IF v.panic # "" THEN [tree |-> self, ret |-> Panic(v.panic)]
        ELSE IF ~v.valid THEN [tree |-> self, ret |-> Err(v.error)]
        ELSE LET r == remove_node(self, node_id)
             IN  IF r.panic # "" THEN [tree |-> r.tree, ret |-> Panic(r.panic)]
                 ELSE [tree |-> r.tree, ret |-> Ok_node(unwrap(r.node))]

---------------------------------------------------------------------------
\* The program: two arenas, and a caller that passes the ids it was given to
\* either of them.

\* The slots of all arenas together.
SlotCount == Len(trees[1].nodes) + Len(trees[2].nodes)

\* An insertion that takes a recycled slot does not grow the arena.
CanInsert(t) == Len(trees[t].free_ids) > 0 \/ SlotCount < MaxSlots

\* In an arena of n slots a children list longer than n - 1 holds an id twice or
\* the node itself; the model stops following an arena there.
ChildrenBounded(self) ==
    \A i \in 1..Len(self.nodes) :
        is_some(self.nodes[i]) => Len(unwrap(self.nodes[i]).children) < MaxSlots

\* A panic ends the program.
Running == panicked = ""

RootChoices == {None} \cup {Some(Node_new(v)) : v \in Values}

\* The capacities a builder is given: none (TreeBuilder::new) and those of the
\* tests.
Capacities == {0, 3, 10}

Init ==
    /\ \E r1 \in RootChoices, r2 \in RootChoices :
       \E node_capacity \in Capacities, swap_capacity \in Capacities :
          trees = (1 :> build(1, r1, node_capacity, swap_capacity))
                      @@ (2 :> build(2, r2, node_capacity, swap_capacity))
    /\ minted = {unwrap(trees[t].root) : t \in {u \in TreeIds : is_some(trees[u].root)}}
    /\ panicked = ""

\* The call on arena t ended as r = [tree, ret].
Step(t, r) ==
    /\ trees' = [trees EXCEPT ![t] = r.tree]
    /\ panicked' = IF r.ret.kind = "Panic" THEN r.ret.error ELSE ""
    /\ minted' = IF r.ret.kind = "Ok" /\ is_some(r.ret.id)
                 THEN minted \cup {unwrap(r.ret.id)}
                 ELSE minted

SetRoot(t, v) ==
    /\ Running
    /\ CanInsert(t)
    /\ ChildrenBounded(set_root(trees[t], Node_new(v)).tree)
    /\ Step(t, set_root(trees[t], Node_new(v)))

InsertWithParent(t, v, id) ==
    /\ Running
    /\ is_valid_node_id(trees[t], id).valid => CanInsert(t)
    /\ ChildrenBounded(insert_with_parent(trees[t], Node_new(v), id).tree)
    /\ Step(t, insert_with_parent(trees[t], Node_new(v), id))

\* The caller writes the payload through the reference get_mut returns, when it
\* returns one.
GetMut(t, v, id) ==
    /\ Running
    /\ LET n == get_mut(trees[t], id)
       IN  /\ trees' = IF is_some(n.val)
                       THEN [trees EXCEPT ![t] = write_node(@, id, set_data(unwrap(n.val), v))]
                       ELSE trees
           /\ panicked' = n.panic
    /\ UNCHANGED minted

RemoveNodeDropChildren(t, id) ==
    /\ Running
    /\ Step(t, remove_node_drop_children(trees[t], id))

RemoveNodeOrphanChildren(t, id) ==
    /\ Running
    /\ Step(t, remove_node_orphan_children(trees[t], id))

Next ==
    \/ \E t \in TreeIds, v \in Values : SetRoot(t, v)
    \/ \E t \in TreeIds, v \in Values, id \in minted : InsertWithParent(t, v, id)
    \/ \E t \in TreeIds, v \in Values, id \in minted : GetMut(t, v, id)
    \/ \E t \in TreeIds, id \in minted : RemoveNodeDropChildren(t, id)
    \/ \E t \in TreeIds, id \in minted : RemoveNodeOrphanChildren(t, id)

Spec == Init /\ [][Next]_vars

---------------------------------------------------------------------------
\* Vocabulary of the properties.

\* The ids an arena of this size has handed out: one per slot.
Ids(self) == {new_node_id(self, i) : i \in 0..(Len(self.nodes) - 1)}

\* The slot of id holds a node (the id validates).
Live(self, id) == is_some(get(self, id).val)

LiveIds(self) == {id \in Ids(self) : Live(self, id)}

\* The slot of id was vacated by a removal.
Vacated(self, id) == id \in Ids(self) /\ ~Live(self, id)

NodeAt(self, id) == unwrap(get(self, id).val)

\* The ids a caller holds that carry the stamp of arena t.
MintedBy(t) == {id \in minted : id.tree_id = t}

\* The elements of a sequence.
Range(s) == {s[i] : i \in 1..Len(s)}

\* The insertions a caller can make on arena t: their results.
Insertions(t, v) ==
    {set_root(trees[t], Node_new(v))}
        \cup {insert_with_parent(trees[t], Node_new(v), p) : p \in minted}

---------------------------------------------------------------------------
\* C1: slot reuse safety. Once a node has been removed (its slot is vacated), an
\* insertion that succeeds returns an id that validates and gives the new value,
\* while the id of the removed node still does not validate (NodeIdNoLongerValid):
\* get gives None for it, never the new node.
C1_SlotReuseSafety ==
    [][\A t \in TreeIds, v \in Values :
        \A r \in Insertions(t, v) :
            (Running /\ r.ret.kind = "Ok" /\ trees' = [trees EXCEPT ![t] = r.tree]) =>
                \A old \in {id \in MintedBy(t) : Vacated(trees[t], id)} :
                    /\ Live(trees'[t], unwrap(r.ret.id))
                    /\ NodeAt(trees'[t], unwrap(r.ret.id)).data = v
                    /\ is_valid_node_id(trees'[t], old).error = "NodeIdNoLongerValid"
                    /\ get(trees'[t], old).val = None]_vars

\* C2: handle isolation. An id minted by arena a is rejected by every operation
\* of another arena b as InvalidNodeIdForTree (get and get_mut: None), without a
\* panic and leaving b as it was, whatever b holds at that index.
C2_HandleIsolation ==
    \A a \in TreeIds :
        \A b \in TreeIds \ {a} :
            \A id \in MintedBy(a) :
                LET rejected == [tree |-> trees[b], ret |-> Err("InvalidNodeIdForTree")]
                IN  /\ is_valid_node_id(trees[b], id)
                          = [valid |-> FALSE, error |-> "InvalidNodeIdForTree", panic |-> ""]
                    /\ \A v \in Values :
                          insert_with_parent(trees[b], Node_new(v), id) = rejected
                    /\ remove_node_drop_children(trees[b], id) = rejected
                    /\ remove_node_orphan_children(trees[b], id) = rejected
                    /\ get(trees[b], id) = [val |-> None, panic |-> ""]
                    /\ get_mut(trees[b], id) = [val |-> None, panic |-> ""]

\* Arena b is offered an id of arena a whose index holds a live node of b, and
\* another whose index is beyond b's slots.
C2_Witness ==
    /\ Running
    /\ \E a \in TreeIds :
          \E b \in TreeIds \ {a} :
              /\ \E id \in MintedBy(a) : Live(trees[b], new_node_id(trees[b], id.index))
              /\ \E id \in MintedBy(a) : id.index >= Len(trees[b].nodes)

\* C3: children to parent. After every operation that returned, every id in the
\* children list of a live node is the id of a live node whose parent link is
\* that node.
C3_ChildrenToParent ==
    Running =>
        \A t \in TreeIds :
            \A x \in LiveIds(trees[t]) :
                \A c \in Range(NodeAt(trees[t], x).children) :
                    /\ Live(trees[t], c)
                    /\ NodeAt(trees[t], c).parent = Some(x)

\* C4: root liveness. After every operation that returned, the root pointer of
\* an arena, when present, is the id of an occupied slot.
C4_RootLive ==
    Running =>
        \A t \in TreeIds :
            is_some(root_node_id(trees[t])) => Live(trees[t], unwrap(root_node_id(trees[t])))

\* The nodes orphaning removal left behind: live, with a parent link to a vacated
\* slot.
Orphans(self) ==
    {c \in LiveIds(self) :
        /\ is_some(NodeAt(self, c).parent)
        /\ Vacated(self, unwrap(NodeAt(self, c).parent))}

\* C5: no operation ends in a panic, and in particular either removal of an
\* orphaned child returns that child's node.
C5_NoFault ==
    /\ panicked = ""
    /\ \A t \in TreeIds :
          \A c \in Orphans(trees[t]) :
              /\ remove_node_orphan_children(trees[t], c).ret
                    = Ok_node(NodeAt(trees[t], c))
              /\ remove_node_drop_children(trees[t], c).ret
                    = Ok_node([NodeAt(trees[t], c) EXCEPT !.children = <<>>])

\* The ids in the children list of id; none when the slot is empty.
ChildIds(self, id) ==
    IF Live(self, id) THEN Range(NodeAt(self, id).children) ELSE {}

\* S and what is reachable from it through at most k children lists.
RECURSIVE ReachDown(_, _, _)
ReachDown(self, S, k) ==
    IF k = 0 THEN S
    ELSE ReachDown(self, S \cup UNION {ChildIds(self, id) : id \in S}, k - 1)

\* The descendants of id: what its children lists lead to.
Descendants(self, id) == ReachDown(self, ChildIds(self, id), Len(self.nodes))

\* The slots a call emptied, and the slots it filled.
Emptied(before, after) == {id \in Ids(before) : Live(before, id) /\ ~Live(after, id)}

Filled(before, after) == {id \in Ids(after) : ~Live(before, id) /\ Live(after, id)}

\* C6: cascading removal completeness. A remove_node_drop_children(h) that
\* succeeds on a node with N descendants empties exactly the N + 1 slots of h and
\* its descendants and changes the occupancy of no other slot; none of those ids
\* validates afterwards; the node returned has h's value and parent link and an
\* empty children list.
C6_CascadeComplete ==
    Running =>
        \A t \in TreeIds :
            \A h \in MintedBy(t) :
                LET self == trees[t]
                    r == remove_node_drop_children(self, h)
                    D == Descendants(self, h)
                IN  r.ret.kind = "Ok" =>
                        /\ Len(r.tree.nodes) = Len(self.nodes)
                        /\ Emptied(self, r.tree) = D \cup {h}
                        /\ Cardinality(Emptied(self, r.tree)) = Cardinality(D) + 1
                        /\ Filled(self, r.tree) = {}
                        /\ \A id \in D \cup {h} : get(r.tree, id).val = None
                        /\ r.ret.node = Some([NodeAt(self, h) EXCEPT !.children = <<>>])

\* A cascading removal of a node with a child and a grandchild succeeds.
C6_Witness ==
    /\ Running
    /\ \E t \in TreeIds :
          \E h \in MintedBy(t) :
              /\ remove_node_drop_children(trees[t], h).ret.kind = "Ok"
              /\ \E c \in ChildIds(trees[t], h) : ChildIds(trees[t], c) # {}

\* C7: orphaning removal preservation. A remove_node_orphan_children(h) that
\* succeeds on a node with children empties the slot of h and no other, returns
\* the node with its children list as it was, and leaves every former child
\* retrievable by its id with its value and children unchanged and its parent
\* link equal to h.
C7_OrphanPreserves ==
    Running =>
        \A t \in TreeIds :
            \A h \in MintedBy(t) :
                LET self == trees[t]
                    r == remove_node_orphan_children(self, h)
                IN  (r.ret.kind = "Ok" /\ ChildIds(self, h) # {}) =>
                        /\ Len(r.tree.nodes) = Len(self.nodes)
                        /\ Emptied(self, r.tree) = {h}
                        /\ Filled(self, r.tree) = {}
                        /\ r.ret.node = Some(NodeAt(self, h))
                        /\ \A c \in ChildIds(self, h) :
                              /\ Live(r.tree, c)
                              /\ NodeAt(r.tree, c).data = NodeAt(self, c).data
                              /\ NodeAt(r.tree, c).children = NodeAt(self, c).children
                              /\ NodeAt(r.tree, c).parent = Some(h)

\* C8: failed validation mutates nothing. Given an id of another arena or the id
\* of a vacated slot, insert_with_parent and both removals return the error of
\* that case and leave the arena exactly as it was.
C8_FailedValidationNoChange ==
    Running =>
        \A t \in TreeIds :
            \A id \in minted :
                (id.tree_id # t \/ Vacated(trees[t], id)) =>
                    LET rejected ==
                            [tree |-> trees[t],
                             ret |-> Err(IF id.tree_id # t THEN "InvalidNodeIdForTree"
                                                          ELSE "NodeIdNoLongerValid")]
                    IN  /\ \A v \in Values :
                              insert_with_parent(trees[t], Node_new(v), id) = rejected
                        /\ remove_node_drop_children(trees[t], id) = rejected
                        /\ remove_node_orphan_children(trees[t], id) = rejected

\* An arena holds an id of the other arena and the id of a vacated slot whose
\* former child is still live, with a recycled slot ready for an insertion.
C8_Witness ==
    /\ Running
    /\ \E t \in TreeIds :
          /\ \E id \in minted : id.tree_id # t
          /\ Len(trees[t].free_ids) > 0
          /\ \E id \in MintedBy(t) :
                /\ Vacated(trees[t], id)
                /\ \E c \in LiveIds(trees[t]) : NodeAt(trees[t], c).parent = Some(id)

\* C9: set_root growth. A set_root(v) on an arena with root R returns a new id
\* N # R that becomes the root; N holds v, has no parent and the one child R; R's
\* parent link is N; R's value and children and every other node are unchanged.
\* On an arena without a root the new node becomes a root without parent or
\* children.
C9_SetRootGrowth ==
    [][\A t \in TreeIds, v \in Values :
        LET self == trees[t]
            r == set_root(self, Node_new(v))
        IN  (Running /\ trees' = [trees EXCEPT ![t] = r.tree]) =>
                /\ r.ret.kind = "Ok"
                /\ LET N == unwrap(r.ret.id)
                       after == trees'[t]
                   IN  /\ after.root = Some(N)
                       /\ Live(after, N)
                       /\ IF is_some(self.root)
                          THEN LET R == unwrap(self.root)
                               IN  /\ N # R
                                   /\ NodeAt(after, N)
                                         = [data |-> v, parent |-> None, children |-> <<R>>]
                                   /\ Live(self, R) /\ Live(after, R)
                                   /\ NodeAt(after, R)
                                         = [NodeAt(self, R) EXCEPT !.parent = Some(N)]
                                   /\ \A id \in LiveIds(self) \ {R} :
                                         get(after, id) = get(self, id)
                          ELSE /\ NodeAt(after, N) = Node_new(v)
                               /\ \A id \in LiveIds(self) : get(after, id) = get(self, id)]_vars

\* Where the parent links lead from id through live nodes: Some(the node whose
\* parent link is absent or refers to no live node), or None when fuel steps did
\* not get there.
RECURSIVE ClimbEnd(_, _, _)
ClimbEnd(self, id, fuel) ==
    LET parent == NodeAt(self, id).parent
    IN  IF is_some(parent) /\ Live(self, unwrap(parent))
        THEN IF fuel = 0 THEN None ELSE ClimbEnd(self, unwrap(parent), fuel - 1)
        ELSE Some(id)

\* C10: acyclic tree shape. After every operation that returned, the parent
\* links from any live node lead, without coming back to a node, to the current
\* root or to a node whose parent link refers to a vacated slot; no live node is
\* in its own children list.
C10_Acyclic ==
    Running =>
        \A t \in TreeIds :
            \A x \in LiveIds(trees[t]) :
                LET self == trees[t]
                    top == ClimbEnd(self, x, Len(self.nodes))
                IN  /\ is_some(top)
                    /\ \/ self.root = top
                       \/ /\ is_some(NodeAt(self, unwrap(top)).parent)
                          /\ Vacated(self, unwrap(NodeAt(self, unwrap(top)).parent))
                    /\ x \notin ChildIds(self, x)

\* The content of the slot an id of this arena points at: self.nodes[index].
Slot(self, id) == self.nodes[id.index + 1]

\* C11: stale handle detection. While the slot of a removed node is empty, its id
\* is refused as NodeIdNoLongerValid by insert_with_parent and by both removals,
\* and get and get_mut give None for it; and get gives the node of every id of
\* the arena whose slot is occupied.
C11_StaleHandle ==
    Running =>
        \A t \in TreeIds :
            \A id \in {m \in MintedBy(t) : m.index < Len(trees[t].nodes)} :
                IF Slot(trees[t], id) = None
                THEN /\ is_valid_node_id(trees[t], id)
                            = [valid |-> FALSE, error |-> "NodeIdNoLongerValid", panic |-> ""]
                     /\ \A v \in Values :
                           insert_with_parent(trees[t], Node_new(v), id).ret
                               = Err("NodeIdNoLongerValid")
                     /\ remove_node_drop_children(trees[t], id).ret
                           = Err("NodeIdNoLongerValid")
                     /\ remove_node_orphan_children(trees[t], id).ret
                           = Err("NodeIdNoLongerValid")
                     /\ get(trees[t], id) = [val |-> None, panic |-> ""]
                     /\ get_mut(trees[t], id) = [val |-> None, panic |-> ""]
                ELSE get(trees[t], id) = [val |-> Slot(trees[t], id), panic |-> ""]

\* An arena holds the id of a removed node, with its slot still empty, beside the
\* id of a node it still stores.
C11_Witness ==
    /\ Running
    /\ \E t \in TreeIds :
          /\ \E id \in MintedBy(t) :
                /\ id.index < Len(trees[t].nodes)
                /\ Slot(trees[t], id) = None
                /\ id \in Range(trees[t].free_ids)
          /\ \E id \in MintedBy(t) :
                id.index < Len(trees[t].nodes) /\ Slot(trees[t], id) # None

\* What a call on arena self gave back, r, leaves of the nodes it did not insert
\* and was not to remove (gone): their slots are occupied as before, by the same
\* values, and no other slot became occupied than the one of the id returned.
OthersKept(self, r, gone, inserted) ==
    /\ \A id \in LiveIds(self) \ gone :
          /\ is_valid_node_id(r.tree, id).valid
          /\ NodeAt(r.tree, id).data = NodeAt(self, id).data
    /\ Filled(self, r.tree) \subseteq inserted
    /\ \A id \in Ids(self) \ (LiveIds(self) \cup inserted) : ~Live(r.tree, id)

\* C12: other handles are preserved. An insertion or a removal that returns
\* changes the slot and the occupancy of no node but the one inserted and the
\* ones removed: every other id that validated before validates afterwards and
\* gives the same value.
C12_OthersPreserved ==
    Running =>
        \A t \in TreeIds :
            /\ \A v \in Values : \A r \in Insertions(t, v) :
                  r.ret.kind # "Panic" =>
                      OthersKept(trees[t], r, {}, Range(r.ret.id))
            /\ \A h \in minted :
                  LET d == remove_node_drop_children(trees[t], h)
                      o == remove_node_orphan_children(trees[t], h)
                  IN  /\ d.ret.kind # "Panic" =>
                            OthersKept(trees[t], d,
                                       IF d.ret.kind = "Ok"
                                       THEN {h} \cup Descendants(trees[t], h)
                                       ELSE {},
                                       {})
                      /\ o.ret.kind # "Panic" =>
                            OthersKept(trees[t], o,
                                       IF o.ret.kind = "Ok" THEN {h} ELSE {}, {})

\* An arena with two nodes and an empty slot on its free list: an insertion
\* refills the slot and a removal empties one more, each beside a node that stays.
C12_Witness ==
    /\ Running
    /\ \E t \in TreeIds :
          /\ Cardinality(LiveIds(trees[t])) = 2
          /\ Len(trees[t].free_ids) = 1
          /\ \E v \in Values : \E r \in Insertions(t, v) :
                r.ret.kind = "Ok" /\ Range(r.ret.id) \subseteq Range(trees[t].free_ids)
          /\ \E h \in MintedBy(t) :
                remove_node_orphan_children(trees[t], h).ret.kind = "Ok"

\* C13: parent-to-child consistency. After every operation that returned, a live
\* node whose parent link names a live node is listed in that node's children.
C13_ParentToChild ==
    Running =>
        \A t \in TreeIds : \A x \in LiveIds(trees[t]) :
            LET parent == NodeAt(trees[t], x).parent
            IN  is_some(parent) /\ Live(trees[t], unwrap(parent))
                    => x \in ChildIds(trees[t], unwrap(parent))

----------------------------------------------------------------------------
\* Post-order traversal, and the trees that insertions alone build.

\* The nodes the builds of the traversal hold at most: the eight of the test.
MaxNodes == 8

AsRoot == [kind |-> "AsRoot", id |-> None]

UnderNode(parent_id) == [kind |-> "UnderNode", id |-> Some(parent_id)]

\* Tree::insert: the two insertions behind one entry point.
insert(self, node, behavior) ==
    IF behavior.kind = "AsRoot"
    THEN set_root(self, node)
    ELSE insert_with_parent(self, node, unwrap(behavior.id))

\* postorder(h) = postorder(child_1) ++ ... ++ postorder(child_k) ++ [h].
RECURSIVE postorder(_, _)
RECURSIVE postorder_children(_, _, _)
postorder(self, h) ==
    postorder_children(self, unwrap(get(self, h).val).children, 1) \o <<h>>

postorder_children(self, children, i) ==
    IF i > Len(children) THEN <<>>
    ELSE postorder(self, children[i]) \o postorder_children(self, children, i + 1)

\* Tree::traverse_post_order_ids: fails when node_id does not validate.
traverse_post_order_ids(self, node_id) ==
    LET v == is_valid_node_id(self, node_id)
    IN  IF v.panic # "" THEN [kind |-> "Panic", ids |-> <<>>, error |-> v.panic]
        ELSE IF ~v.valid THEN [kind |-> "Err", ids |-> <<>>, error |-> v.error]
        ELSE [kind |-> "Ok", ids |-> postorder(self, node_id), error |-> ""]

\* As the test starts: TreeBuilder::new().build().
InitTraversal ==
    /\ trees = [t \in TreeIds |-> build(t, None, 0, 0)]
    /\ minted = {}
    /\ panicked = ""

\* The next node of a build holds the number of the nodes before it.
NextData == Len(trees[1].nodes)

InsertAsRoot ==
    /\ Running
    /\ NextData < MaxNodes
    /\ Step(1, insert(trees[1], Node_new(NextData), AsRoot))

InsertUnderNode(id) ==
    /\ Running
    /\ NextData < MaxNodes
    /\ Step(1, insert(trees[1], Node_new(NextData), UnderNode(id)))

NextTraversal ==
    \/ InsertAsRoot
    \/ \E id \in minted : InsertUnderNode(id)

SpecTraversal == InitTraversal /\ [][NextTraversal]_vars

\* The values of the nodes a traversal names, in its order.
DataOf(self, ids) == [i \in 1..Len(ids) |-> NodeAt(self, ids[i]).data]

\* The id of the node that holds data.
IdOf(self, data) == CHOOSE id \in LiveIds(self) : NodeAt(self, id).data = data

\* The tree of the test: 0 with children 1, 3, 4; 1 with child 2; 4 with
\* children 5, 6, 7, inserted in the order of their values. TestParents is the
\* value held by the parent of the nodes holding 1, 2, ..., 7.
TestParents == <<0, 1, 0, 0, 4, 4, 4>>

\* Inserts the node holding i under the node holding parents[i], for i, i + 1, ...
RECURSIVE Scripted(_, _, _)
Scripted(self, parents, i) ==
    IF i > Len(parents) THEN self
    ELSE Scripted(insert(self, Node_new(i), UnderNode(IdOf(self, parents[i]))).tree,
                  parents, i + 1)

TestTree ==
    Scripted(insert(build(1, None, 0, 0), Node_new(0), AsRoot).tree, TestParents, 1)

\* C14: post-order traversal. In a tree built by insertions, the traversal from
\* any node h names every node of h's subtree exactly once, every descendant
\* before its ancestor and h last; in the tree of the test it gives the values
\* 2, 1, 3, 5, 6, 7, 4, 0 from the root, 5, 6, 7, 4 from the node holding 4 and 3
\* from the node holding 3.
C14_PostOrder ==
    /\ LET below == [id \in minted |-> Descendants(trees[1], id)]
       IN  \A h \in minted :
               LET r == traverse_post_order_ids(trees[1], h)
                   n == Len(r.ids)
               IN  /\ r.kind = "Ok"
                   /\ Range(r.ids) = {h} \cup below[h]
                   /\ n = Cardinality(Range(r.ids))
                   /\ r.ids[n] = h
                   /\ \A j \in 1..n :
                         below[r.ids[j]] \subseteq {r.ids[i] : i \in 1..(j - 1)}
    /\ (Len(trees[1].nodes) = Len(TestParents) + 1 /\ trees[1] = TestTree) =>
          /\ DataOf(trees[1], traverse_post_order_ids(trees[1], IdOf(trees[1], 0)).ids)
                = <<2, 1, 3, 5, 6, 7, 4, 0>>
          /\ DataOf(trees[1], traverse_post_order_ids(trees[1], IdOf(trees[1], 4)).ids)
                = <<5, 6, 7, 4>>
          /\ DataOf(trees[1], traverse_post_order_ids(trees[1], IdOf(trees[1], 3)).ids)
                = <<3>>

\* The tree of the test has been built: the root holds 0 and lists three
\* children, the last of which lists three.
C14_Witness ==
    /\ trees[1] = TestTree
    /\ Len(trees[1].nodes) = Len(TestParents) + 1
    /\ Len(NodeAt(trees[1], unwrap(trees[1].root)).children) = 3
    /\ Len(NodeAt(trees[1], IdOf(trees[1], 4)).children) = 3

\* The ways a cascade ends that does not come to an end in the code: the
\* recursion deeper than any chain of distinct nodes, and the recursion into a
\* node it has removed already.
Runaway == {Panic("stack overflow"), Panic("called Option::unwrap() on a None value")}

\* C15: cascading removal terminates. In every state the operations lead to,
\* remove_node_drop_children of an id that validates comes to an end: its
\* recursion neither comes back to a node nor goes on for ever.
C15_CascadeTerminates ==
    Running =>
        \A t \in TreeIds : \A h \in MintedBy(t) :
            Live(trees[t], h)
                => remove_node_drop_children(trees[t], h).ret \notin Runaway

\* C16: free-list invariant. In every state, every id on free_ids carries the
\* stamp of its arena and names a slot of the arena that is empty, so that get
\* gives None for it.
C16_FreeList ==
    \A t \in TreeIds : \A id \in Range(trees[t].free_ids) :
        /\ id.tree_id = trees[t].id
        /\ id.index < Len(trees[t].nodes)
        /\ Slot(trees[t], id) = None
        /\ get(trees[t], id) = [val |-> None, panic |-> ""]

\* A free list of two ids beside a live node, and an insertion that takes the
\* last id off the list.
C16_Witness ==
    \E t \in TreeIds :
        /\ Len(trees[t].free_ids) = 2
        /\ LiveIds(trees[t]) # {}
        /\ \E v \in Values :
              LET r == set_root(trees[t], Node_new(v))
              IN  /\ r.ret = Ok_id(trees[t].free_ids[2])
                  /\ r.tree.free_ids = SubSeq(trees[t].free_ids, 1, 1)

\* C17: no duplicate children. After every operation that returned, the children
\* list of a live node names no id twice.
C17_NoDuplicateChildren ==
    Running =>
        \A t \in TreeIds : \A id \in LiveIds(trees[t]) :
            LET children == NodeAt(trees[t], id).children
            IN  \A i, j \in 1..Len(children) : children[i] = children[j] => i = j

\* C18: insert_with_parent under a parent that validates returns the id of a
\* slot that held no node before and now holds the given value with the parent
\* link P and no children, and P's children are its previous children, in their
\* order, followed by that id.
C18_InsertWithParent ==
    Running =>
        \A t \in TreeIds : \A P \in MintedBy(t) : \A v \in Values :
            Live(trees[t], P) =>
                LET r == insert_with_parent(trees[t], Node_new(v), P)
                    N == unwrap(r.ret.id)
                IN  /\ r.ret.kind = "Ok"
                    /\ is_some(r.ret.id)
                    /\ ~Live(trees[t], N)
                    /\ is_valid_node_id(r.tree, N).valid
                    /\ NodeAt(r.tree, N)
                          = [data |-> v, parent |-> Some(P), children |-> <<>>]
                    /\ NodeAt(r.tree, P).children
                          = Append(NodeAt(trees[t], P).children, N)

\* A node with two children, the second inserted under it after the first, and
\* room for a third.
C18_Witness ==
    /\ Running
    /\ \E t \in TreeIds : \E P \in MintedBy(t) :
          /\ Live(trees[t], P)
          /\ Len(NodeAt(trees[t], P).children) = 2
          /\ \A i \in 1..2 :
                LET c == NodeAt(trees[t], P).children[i]
                IN  Live(trees[t], c) /\ NodeAt(trees[t], c).parent = Some(P)
          /\ NodeAt(trees[t], P).children[1] # NodeAt(trees[t], P).children[2]

\* C19: construction. A build with a root value gives an arena of exactly one
\* slot, its root pointer at index 0 and get of the root giving that value; a
\* build without a root gives an arena with no root, no slots and an empty free
\* list; and the capacities given change none of this. The builds are those of
\* the arenas of the program, under their stamps.
C19_Construction ==
    \A t \in TreeIds : \A node_capacity \in Capacities, swap_capacity \in Capacities :
        /\ \A v \in Values :
              LET tree == build(trees[t].id, Some(Node_new(v)), node_capacity, swap_capacity)
                  root == [tree_id |-> trees[t].id, index |-> 0]
              IN  /\ Len(tree.nodes) = 1
                  /\ tree.free_ids = <<>>
                  /\ root_node_id(tree) = Some(root)
                  /\ get(tree, root) = [val |-> Some(Node_new(v)), panic |-> ""]
        /\ LET tree == build(trees[t].id, None, node_capacity, swap_capacity)
           IN  /\ tree.root = None
               /\ Len(tree.nodes) = 0
               /\ Len(tree.free_ids) = 0

\* The program stands where its two builds left it: the one arena built with a
\* root, the other without.
C19_Witness ==
    /\ \E v \in Values : \E node_capacity \in Capacities, swap_capacity \in Capacities :
          /\ trees[1] = build(1, Some(Node_new(v)), node_capacity, swap_capacity)
          /\ trees[2] = build(2, None, node_capacity, swap_capacity)
    /\ Len(trees[1].nodes) = 1
    /\ Len(trees[2].nodes) = 0
    /\ minted = {[tree_id |-> 1, index |-> 0]}

\* The panics of an index beyond the slots.
OutOfBounds == {"NodeId is out of bounds", "swap_remove index out of bounds"}

\* The operations a caller can apply to arena t with an id and a value: what
\* each leaves of the arena, and the panic it ends in, if any.
Outcomes(t, id, v) ==
    {[tree |-> r.tree, panic |-> IF r.ret.kind = "Panic" THEN r.ret.error ELSE ""] :
        r \in {set_root(trees[t], Node_new(v)),
               insert_with_parent(trees[t], Node_new(v), id),
               remove_node_drop_children(trees[t], id),
               remove_node_orphan_children(trees[t], id)}}
        \cup {[tree |-> trees[t], panic |-> get(trees[t], id).panic],
              [tree |-> trees[t], panic |-> get_mut(trees[t], id).panic]}

\* C20: the out-of-bounds branch of the validation is unreachable. In every
\* state, the index of every id ever handed out, of removed nodes and on the
\* free list too, is below the number of slots of its arena; no operation makes
\* that number smaller; and no operation given such an id ends in the
\* out-of-bounds panic.
C20_NoOutOfBounds ==
    /\ \A id \in minted : id.index < Len(trees[id.tree_id].nodes)
    /\ \A t \in TreeIds : \A id \in Range(trees[t].free_ids) :
          id.index < Len(trees[t].nodes)
    /\ panicked \notin OutOfBounds
    /\ Running =>
          \A t \in TreeIds : \A id \in minted : \A v \in Values :
              \A o \in Outcomes(t, id, v) :
                  /\ o.panic \notin OutOfBounds
                  /\ Len(o.tree.nodes) >= Len(trees[t].nodes)

\* An arena of three slots whose ids have all been handed out, two of them of
\* removed nodes and on the free list.
C20_Witness ==
    \E t \in TreeIds :
        /\ Len(trees[t].nodes) = MaxSlots
        /\ Ids(trees[t]) \subseteq minted
        /\ Len(trees[t].free_ids) = 2
        /\ [tree_id |-> t, index |-> MaxSlots - 1] \in Range(trees[t].free_ids)

\* C21: slot allocation policy. An insertion that succeeds on an arena with a
\* non-empty free list returns the id freed last, takes it off the free list,
\* writes the new value into its slot and leaves the number of slots as it was;
\* on an arena with an empty free list it appends one slot and returns the id
\* whose index is the number of slots before.
C21_AllocationPolicy ==
    Running =>
        \A t \in TreeIds : \A v \in Values : \A r \in Insertions(t, v) :
            r.ret.kind = "Ok" =>
                LET self == trees[t]
                    free == Len(self.free_ids)
                    N == unwrap(r.ret.id)
                IN  /\ is_some(r.ret.id)
                    /\ is_some(Slot(r.tree, N))
                    /\ unwrap(Slot(r.tree, N)).data = v
                    /\ IF free > 0
                       THEN /\ N = self.free_ids[free]
                            /\ r.tree.free_ids = SubSeq(self.free_ids, 1, free - 1)
                            /\ Len(r.tree.nodes) = Len(self.nodes)
                       ELSE /\ N = [tree_id |-> self.id, index |-> Len(self.nodes)]
                            /\ r.tree.free_ids = <<>>
                            /\ Len(r.tree.nodes) = Len(self.nodes) + 1

\* An arena whose free list holds two different ids beside a live node, under
\* which an insertion succeeds; and an arena with an empty free list on which
\* an insertion succeeds.
C21_Witness ==
    /\ Running
    /\ \E t \in TreeIds :
          /\ Len(trees[t].free_ids) = 2
          /\ trees[t].free_ids[1] # trees[t].free_ids[2]
          /\ \E v \in Values, P \in MintedBy(t) :
                insert_with_parent(trees[t], Node_new(v), P).ret.kind = "Ok"
    /\ \E t \in TreeIds :
          /\ Len(trees[t].free_ids) = 0
          /\ \E v \in Values : set_root(trees[t], Node_new(v)).ret.kind = "Ok"

\* The parent of h, if h holds a node with a parent link to a live node.
LiveParent(self, h) ==
    IF Live(self, h) /\ is_some(NodeAt(self, h).parent)
                     /\ Live(self, unwrap(NodeAt(self, h).parent))
    THEN NodeAt(self, h).parent
    ELSE None

\* After the removal r of h from self, the live parent of h is still there and
\* its children are those it had, in their order, without h.
Detached(self, r, h) ==
    LET P == unwrap(LiveParent(self, h))
    IN  /\ Live(r.tree, P)
        /\ h \notin Range(NodeAt(r.tree, P).children)
        /\ NodeAt(r.tree, P).children = retain_ne(NodeAt(self, P).children, h)

\* C22: removal detaches from the parent. After a remove_node_drop_children(h)
\* or remove_node_orphan_children(h) that succeeds on a node whose parent P is
\* live, P's children do not contain h and the others keep their order; and
\* remove_node_orphan_children changes the children list and the parent link of
\* no other node.
C22_RemovalDetaches ==
    Running =>
        \A t \in TreeIds : \A h \in MintedBy(t) :
            LET self == trees[t]
                d == remove_node_drop_children(self, h)
                o == remove_node_orphan_children(self, h)
                P == LiveParent(self, h)
            IN  /\ (d.ret.kind = "Ok" /\ is_some(P)) => Detached(self, d, h)
                /\ (o.ret.kind = "Ok" /\ is_some(P)) => Detached(self, o, h)
                /\ o.ret.kind = "Ok" =>
                      \A id \in LiveIds(self) \ {h} :
                          /\ Live(o.tree, id)
                          /\ NodeAt(o.tree, id).parent = NodeAt(self, id).parent
                          /\ Some(id) # P =>
                                NodeAt(o.tree, id).children = NodeAt(self, id).children

\* A node with two children: either removal of the first child succeeds and
\* leaves the second in the list.
C22_Witness ==
    /\ Running
    /\ \E t \in TreeIds : \E h \in MintedBy(t) :
          /\ is_some(LiveParent(trees[t], h))
          /\ LET P == unwrap(LiveParent(trees[t], h))
             IN  /\ Len(NodeAt(trees[t], P).children) = 2
                 /\ NodeAt(trees[t], P).children[1] = h
                 /\ NodeAt(trees[t], P).children[2] # h
          /\ remove_node_drop_children(trees[t], h).ret.kind = "Ok"
          /\ remove_node_orphan_children(trees[t], h).ret.kind = "Ok"

\* The ids of the empty slots of an arena.
EmptyIds(self) == {id \in Ids(self) : Slot(self, id) = None}

\* C23: slot accounting. In every state the free list of an arena names no id
\* twice and names exactly the ids of its empty slots, so that the number of
\* slots is the number of live nodes plus the length of the free list; and an
\* insertion that succeeds returns the id of a slot that held no node.
C23_SlotAccounting ==
    \A t \in TreeIds :
        LET self == trees[t]
        IN  /\ Cardinality(Range(self.free_ids)) = Len(self.free_ids)
            /\ Range(self.free_ids) = EmptyIds(self)
            /\ Len(self.nodes) = Cardinality(LiveIds(self)) + Len(self.free_ids)
            /\ Running =>
                  \A v \in Values : \A r \in Insertions(t, v) :
                      r.ret.kind = "Ok" => unwrap(r.ret.id) \notin LiveIds(self)

\* An arena with a live node and two empty slots, both on its free list, after
\* a cascade that emptied more than one slot or two removals.
C23_Witness ==
    \E t \in TreeIds :
        /\ Cardinality(LiveIds(trees[t])) = 1
        /\ Cardinality(EmptyIds(trees[t])) = 2
        /\ Len(trees[t].free_ids) = 2
        /\ Len(trees[t].nodes) = MaxSlots

====
